---------------------------- MODULE Spec2Model ----------------------------
(***************************************************************************)
(* arxiv-go: the client's retry coordinator and rate limiter (client.go),  *)
(* and the paginating iterator built on them (iterator.go).                *)
(*                                                                         *)
(* Time is counted in seconds.  An item (a *Paper) is identified by the    *)
(* SearchResults object it lives in and its position there, as the Go      *)
(* pointer &state.Results.Papers[i] is.                                    *)
(***************************************************************************)
EXTENDS Integers, Sequences, FiniteSets, TLC

VARIABLES
    options,   \* Client.options: RetryAttempts, RetryDelay, RateLimit
    query,     \* the Query the iterator points to: Start, MaxResults, Limit
    state,     \* StateManager.state of the iterator
    ctxDone,   \* the iterator's context (Fetcher.ctx) has been cancelled
    polls,     \* number of nextPaper calls since creation or Reset
    yielded,   \* the items nextPaper has returned since creation or Reset
    ample,     \* every fetch since creation or Reset found more items than asked
    brokeOn,   \* the item on which the consumer last broke out of All()
    lastOp,    \* what the last operation was and what it returned
    derived,   \* the iterator that WithContext made of this one, if any
    limiter    \* the clock, Client.rlMu and Client.lastRequest, and the
               \* goroutines that pass through applyRateLimit

vars == <<options, query, state, ctxDone, polls, yielded, ample, brokeOn, lastOp,
          derived, limiter>>

---------------------------------------------------------------------------
(* Bounds of the exploration *)

MaxItems == 2          \* most items one response carries
MaxPolls == 4          \* nextPaper calls explored between two Resets
MaxLag == 1            \* most time between the two clock readings of applyRateLimit

MaxDerivedPolls == 2   \* nextPaper calls explored on a WithContext iterator
MaxCallers == 2        \* goroutines that share the client's rate limiter
MaxTime == 4            \* how far the clock of the rate limiter runs
MaxCollect == 2        \* largest n given to CollectN, CollectNSeq and TakeSeq
MaxHeld == 3           \* most items the transport of those calls holds
MaxFairTime == 1        \* the same where only progress is looked at

MaxPageSize == MaxItems    \* largest Query.MaxResults explored
MaxLimit == MaxItems       \* largest Query.Limit explored

(* Program constants, client.go *)

defaultRetryAttempts == 3
defaultRetryDelay == 1
defaultRateLimit == 1

---------------------------------------------------------------------------
(* Errors: types.go *)

NilErr == [type |-> "nil", msg |-> "", api |-> FALSE, retry |-> FALSE]

\* ctx.Err(): context.Canceled / context.DeadlineExceeded, not an *APIError
CtxErr == [type |-> "context", msg |-> "context done", api |-> FALSE, retry |-> FALSE]

\* Mutant: a network failure is not marked retryable
NewAPIError_NetworkFatal(errorType, message) ==
    [type  |-> errorType,
     msg   |-> message,
     api   |-> TRUE,
     retry |-> errorType \in {"rate_limit", "timeout", "no_entry"}]

NewAPIError(errorType, message) ==
    [type  |-> errorType,
     msg   |-> message,
     api   |-> TRUE,
     retry |-> errorType \in {"rate_limit", "timeout", "network", "no_entry"}]

\* Not an error value: the call did not return, it panicked on a nil pointer
PanicErr == [type |-> "panic", msg |-> "nil pointer dereference",
             api |-> FALSE, retry |-> FALSE]

---------------------------------------------------------------------------
(* The transport: what httpClient.Do and the server answer to one request *)

Responses == {"ok", "throttle", "status", "neterr", "malformed"}

\* The error the closure of Client.Search makes of a response
ResponseError(resp) ==
    CASE resp = "ok"        -> NilErr
      [] resp = "throttle"  -> NewAPIError("rate_limit", "rate limit exceeded")
      [] resp = "status"    -> NewAPIError("network", "API error")
      [] resp = "neterr"    -> NewAPIError("network", "failed to make request")
      [] resp = "malformed" -> NewAPIError("parsing", "failed to parse response")

RetryableResponse(resp) == ResponseError(resp).retry

\* The answers of the transport to the successive attempts of one operation:
\* it is asked again only after a retryable failure, at most n times.
Scripts(n) ==
    IF n <= 0 THEN {<< >>}
    ELSE { s \in UNION { [1..k -> Responses] : k \in 1..n } :
             /\ \A i \in 1..(Len(s) - 1) : RetryableResponse(s[i])
             /\ Len(s) < n => ~RetryableResponse(s[Len(s)]) }

---------------------------------------------------------------------------
(* Client construction: client.go *)

\* Mutant: a negative rate limit is replaced by the default, like zero
NewClientWithOptions_NegativeIsDefault(opts) ==
    [RetryAttempts |-> IF opts.RetryAttempts = 0 THEN defaultRetryAttempts
                       ELSE opts.RetryAttempts,
     RetryDelay    |-> IF opts.RetryDelay = 0 THEN defaultRetryDelay
                       ELSE opts.RetryDelay,
     RateLimit     |-> IF opts.RateLimit <= 0 THEN defaultRateLimit
                       ELSE opts.RateLimit]

NewClientWithOptions(opts) ==
    [RetryAttempts |-> IF opts.RetryAttempts = 0 THEN defaultRetryAttempts
                       ELSE opts.RetryAttempts,
     RetryDelay    |-> IF opts.RetryDelay = 0 THEN defaultRetryDelay
                       ELSE opts.RetryDelay,
     RateLimit     |-> IF opts.RateLimit = 0 THEN defaultRateLimit
                       ELSE opts.RateLimit]

\* The ClientOptions explored
ClientOptions ==
    [RetryAttempts : {-1, 0, 1, 2}, RetryDelay : {0, 2}, RateLimit : {-1, 0, 2}]

Clients == { NewClientWithOptions(o) : o \in ClientOptions }

\* The clients the iterator is explored on: the retry delay does not reach it
IteratorClients ==
    { NewClientWithOptions(o) :
        o \in [RetryAttempts : {-1, 2}, RetryDelay : {0}, RateLimit : {-1, 0}] }

---------------------------------------------------------------------------
(* The rate limiter: Client.applyRateLimit.                                *)
(* lag is the time that passes between c.lastRequest = time.Now() and      *)
(* time.Since(c.lastRequest); fired says the context is done by the time   *)
(* the select is reached or fires while it waits.                          *)

applyRateLimit(opts, lag, fired) ==
    IF opts.RateLimit <= 0
    THEN [err |-> NilErr, took |-> 0]
    ELSE LET elapsed == lag
         IN IF elapsed >= opts.RateLimit
            THEN [err |-> NilErr, took |-> elapsed]
            ELSE LET wait == opts.RateLimit - elapsed
                 IN IF fired
                    THEN [err |-> CtxErr, took |-> elapsed]
                    ELSE [err |-> NilErr, took |-> elapsed + wait]

---------------------------------------------------------------------------
(* One operation of the client.  Its input:                                *)
(*   script    the transport's answers to the successive attempts          *)
(*   ctxDone   the context is already cancelled when the operation starts  *)
(*   cancelAt  0, or the suspension point during which the context fires;  *)
(*             attempt a (0-based) acquires at point 3a+1, calls the       *)
(*             transport at 3a+2 and waits the retry delay at 3a+3         *)
(*   pick      when a select finds both channels ready it takes the timer  *)
(*   lag       see applyRateLimit                                          *)

NoCancel == 0

CtxFired(in, point) ==
    in.ctxDone \/ (in.cancelAt # NoCancel /\ point >= in.cancelAt)

\* Mutant: only the first attempt goes through the rate limiter
SearchFn_AcquiresOnce(opts, in, attempt) ==
    LET rl == IF attempt = 0
              THEN applyRateLimit(opts, in.lag, CtxFired(in, 3 * attempt + 1))
              ELSE [err |-> NilErr, took |-> 0]
    IN IF rl.err # NilErr
       THEN [err |-> rl.err, invoked |-> FALSE, took |-> rl.took, resp |-> "-"]
       ELSE IF CtxFired(in, 3 * attempt + 2)
            THEN [err |-> NewAPIError("network", "failed to make request"),
                  invoked |-> TRUE, took |-> rl.took, resp |-> "ctx"]
            ELSE LET resp == IF attempt + 1 <= Len(in.script)
                             THEN in.script[attempt + 1] ELSE "neterr"
                 IN [err |-> ResponseError(resp), invoked |-> TRUE,
                     took |-> rl.took, resp |-> resp]

\* The closure Client.Search hands to retryWithBackoff, on attempt `attempt`
SearchFn(opts, in, attempt) ==
    LET rl == applyRateLimit(opts, in.lag, CtxFired(in, 3 * attempt + 1))
    IN IF rl.err # NilErr
       THEN [err |-> rl.err, invoked |-> FALSE, took |-> rl.took, resp |-> "-"]
       ELSE IF CtxFired(in, 3 * attempt + 2)
            THEN \* httpClient.Do fails on a done context
                 [err |-> NewAPIError("network", "failed to make request"),
                  invoked |-> TRUE, took |-> rl.took, resp |-> "ctx"]
            ELSE LET resp == IF attempt + 1 <= Len(in.script)
                             THEN in.script[attempt + 1] ELSE "neterr"
                 IN [err |-> ResponseError(resp), invoked |-> TRUE,
                     took |-> rl.took, resp |-> resp]

\* Mutant: the configured delay is waited after every failure
RetryDelayAfter_Always(opts, attempt) == opts.RetryDelay

\* The retry delay waited after the failure of attempt `attempt`
RetryDelayAfter(opts, attempt) ==
    IF attempt # 0 THEN opts.RetryDelay ELSE 0

\* Whether the loop goes on to wait after the failure of attempt `attempt`
WaitsAfter(opts, attempt) == attempt < opts.RetryAttempts - 1

\* Mutant: only the error's type is looked at, not its Retry flag
IsFatal_IgnoresRetryFlag(err) == ~err.api

\* Mutant: no failure is retried
IsFatal_Always(err) == TRUE

\* Whether a retryWithBackoff stops on this failure without retrying
IsFatal(err) == ~err.api \/ ~err.retry

\* Mutant: the loop runs one attempt too many
LoopDone_OffByOne(opts, attempt) == attempt > opts.RetryAttempts

\* The loop condition of retryWithBackoff, negated
LoopDone(opts, attempt) == attempt >= opts.RetryAttempts

RECURSIVE retryLoop(_, _, _, _, _)
retryLoop(opts, in, attempt, lastErr, acc) ==
    IF LoopDone(opts, attempt)
    THEN [err |-> lastErr, got |-> FALSE, calls |-> acc.calls,
          trace |-> acc.trace, point |-> acc.point]
    ELSE
      LET f     == SearchFn(opts, in, attempt)
          calls == acc.calls + (IF f.invoked THEN 1 ELSE 0)
          trace == Append(acc.trace,
                          [delay |-> acc.delay, took |-> f.took,
                           invoked |-> f.invoked, resp |-> f.resp])
          point == IF f.invoked THEN 3 * attempt + 2 ELSE 3 * attempt + 1
      IN IF f.err = NilErr
         THEN [err |-> NilErr, got |-> TRUE, calls |-> calls,
               trace |-> trace, point |-> point]
         ELSE IF IsFatal(f.err)
         THEN [err |-> f.err, got |-> FALSE, calls |-> calls,
               trace |-> trace, point |-> point]
         ELSE IF WaitsAfter(opts, attempt)
         THEN LET delay == RetryDelayAfter(opts, attempt)
                  done  == CtxFired(in, 3 * attempt + 3)
              IN IF done /\ ~(delay = 0 /\ in.pick)
                 THEN [err |-> CtxErr, got |-> FALSE, calls |-> calls,
                       trace |-> trace, point |-> 3 * attempt + 3]
                 ELSE retryLoop(opts, in, attempt + 1, f.err,
                                [calls |-> calls, trace |-> trace,
                                 delay |-> delay, point |-> 3 * attempt + 3])
         ELSE retryLoop(opts, in, attempt + 1, f.err,
                        [calls |-> calls, trace |-> trace,
                         delay |-> 0, point |-> point])

retryWithBackoff(opts, in) ==
    LET r == retryLoop(opts, in, 0, NilErr,
                       [calls |-> 0, trace |-> << >>, delay |-> 0, point |-> 0])
    IN [err |-> r.err, got |-> r.got, calls |-> r.calls, trace |-> r.trace,
        script |-> in.script, done |-> in.ctxDone,
        cancelled |-> in.cancelAt # NoCancel /\ in.cancelAt <= r.point,
        firedAt |-> IF in.cancelAt # NoCancel /\ in.cancelAt <= r.point
                    THEN in.cancelAt ELSE NoCancel]

\* The inputs of one operation; a cancellation point the operation never
\* reaches is the same as no cancellation during it.
Inputs(opts, done) ==
    { in \in [script : Scripts(opts.RetryAttempts),
              ctxDone : {done},
              cancelAt : IF done THEN {NoCancel}
                         ELSE 0..(3 * opts.RetryAttempts),
              pick : BOOLEAN,
              lag : 0..MaxLag] : TRUE }

RetryRuns(opts, done) ==
    { retryWithBackoff(opts, in) : in \in Inputs(opts, done) }

\* Every run of every client, computed once: <<client, context done, run>>
RunTable ==
    UNION { { <<opts, done, r>> : r \in RetryRuns(opts, done) } :
              opts \in Clients, done \in BOOLEAN }

Runs(opts, done) ==
    { t[3] : t \in { x \in RunTable : x[1] = opts /\ x[2] = done } }

\* What the iterator sees of a run: the timing does not reach it
Outcome(run) ==
    [err |-> run.err, got |-> run.got, calls |-> run.calls,
     cancelled |-> run.cancelled]

OutcomeTable == { <<t[1], t[2], Outcome(t[3])>> : t \in RunTable }

Outcomes(opts, done) ==
    { t[3] : t \in { x \in OutcomeTable : x[1] = opts /\ x[2] = done } }

---------------------------------------------------------------------------
(* Search results and items: types.go *)

\* A *SearchResults: id 0 is the nil pointer, n is len(Papers)
NilResults == [id |-> 0, StartIndex |-> 0, n |-> 0, TotalCount |-> 0]

\* A *Paper: &Results.Papers[idx] of the results object res; res 0 is nil
NoPaper == [res |-> 0, idx |-> 0]

\* What a successful response carries: n items, the start index it reports
\* (the requested one, or 0 as a fixed canned answer does) and a total count
Payloads ==
    [n : 0..MaxItems, honour : BOOLEAN, TotalCount : {0, 2, MaxItems * MaxPolls + 1}]

NoPayload == [n |-> 0, honour |-> TRUE, TotalCount |-> 0]

\* Client.Search for a non-nil query: the retried operation and its result
Search(q, out, pay, id) ==
    IF out.err # NilErr
    THEN [results |-> NilResults, err |-> out.err, calls |-> out.calls]
    ELSE IF out.got
         THEN [results |-> [id |-> id,
                            StartIndex |-> IF pay.honour THEN q.Start ELSE 0,
                            n |-> pay.n,
                            TotalCount |-> pay.TotalCount],
               err |-> NilErr, calls |-> out.calls]
         ELSE [results |-> NilResults, err |-> NilErr, calls |-> out.calls]

\* Fetcher.Fetch: the query handed to it is never nil here
Fetch(q, out, pay, id) == Search(q, out, pay, id)

---------------------------------------------------------------------------
(* The iterator's state machine: iterator.go *)

StateInitial   == "initial"
StateFetching  == "fetching"
StateReady     == "ready"
StateExhausted == "exhausted"
StateError     == "error"

\* NewStateManager / StateManager.Reset: State{Current: StateInitial}
InitialState ==
    [Current |-> StateInitial, CurrentPage |-> 0, CurrentIndex |-> 0,
     TotalFetched |-> 0, Error |-> NilErr, Results |-> NilResults]

\* Mutant: a new page does not put the cursor back to its first item
FetchActionApply_KeepsCursor(a, st) ==
    IF a.Error # NilErr
    THEN [Current |-> StateError, CurrentPage |-> st.CurrentPage,
          CurrentIndex |-> st.CurrentIndex, TotalFetched |-> st.TotalFetched,
          Error |-> a.Error, Results |-> st.Results]
    ELSE IF a.Results.id = 0 \/ a.Results.n = 0
    THEN [Current |-> StateExhausted, CurrentPage |-> st.CurrentPage,
          CurrentIndex |-> st.CurrentIndex, TotalFetched |-> st.TotalFetched,
          Error |-> NilErr, Results |-> a.Results]
    ELSE [Current |-> StateReady, CurrentPage |-> st.CurrentPage + 1,
          CurrentIndex |-> st.CurrentIndex, TotalFetched |-> st.TotalFetched,
          Error |-> NilErr, Results |-> a.Results]

\* FetchAction.Apply; a = [Results, Error]
FetchActionApply(a, st) ==
    IF a.Error # NilErr
    THEN [Current |-> StateError, CurrentPage |-> st.CurrentPage,
          CurrentIndex |-> st.CurrentIndex, TotalFetched |-> st.TotalFetched,
          Error |-> a.Error, Results |-> st.Results]
    ELSE IF a.Results.id = 0 \/ a.Results.n = 0
    THEN [Current |-> StateExhausted, CurrentPage |-> st.CurrentPage,
          CurrentIndex |-> st.CurrentIndex, TotalFetched |-> st.TotalFetched,
          Error |-> NilErr, Results |-> a.Results]
    ELSE [Current |-> StateReady, CurrentPage |-> st.CurrentPage + 1,
          CurrentIndex |-> 0, TotalFetched |-> st.TotalFetched,
          Error |-> NilErr, Results |-> a.Results]

\* Mutant: the cursor advances but the item is not counted
ConsumeActionApply_NoCount(st) ==
    [st EXCEPT !.CurrentIndex = st.CurrentIndex + 1]

\* ConsumeAction.Apply
ConsumeActionApply(st) ==
    [Current |-> st.Current, CurrentPage |-> st.CurrentPage,
     CurrentIndex |-> st.CurrentIndex + 1, TotalFetched |-> st.TotalFetched + 1,
     Error |-> st.Error, Results |-> st.Results]

\* Mutant: the offset is always computed from the page number
CalculateStartIndex_FromPage(q, currentPage, results) ==
    currentPage * q.MaxResults

\* Paginator.CalculateStartIndex
CalculateStartIndex(q, currentPage, results) ==
    IF results.id # 0
    THEN results.StartIndex + results.n
    ELSE currentPage * q.MaxResults

\* Mutant: the size is the configured one, whatever the limit leaves
CalculateMaxResults_NoClamp(q, totalFetched) == q.MaxResults

\* Paginator.CalculateMaxResults
CalculateMaxResults(q, totalFetched) ==
    IF q.Limit > 0 /\ q.Limit - totalFetched < q.MaxResults
    THEN q.Limit - totalFetched
    ELSE q.MaxResults

\* Mutant: once a page has been fetched there is never more
HasMoreData_OnePage(q, st) == st.Results.id = 0

\* Paginator.HasMoreData
HasMoreData(q, st) ==
    IF st.Results.id = 0 THEN TRUE
    ELSE IF q.Limit > 0 /\ st.TotalFetched >= q.Limit THEN FALSE
    ELSE IF st.Results.TotalCount > 0
            /\ st.Results.StartIndex + st.Results.n >= st.Results.TotalCount
    THEN FALSE
    ELSE IF st.Results.n < q.MaxResults THEN FALSE
    ELSE TRUE

\* Mutant: every call fetches, whatever the window still holds
needsMoreData_Always(q, st) == TRUE

\* Iterator.needsMoreData
needsMoreData(q, st) ==
    IF st.Results.id = 0 THEN TRUE
    ELSE IF st.CurrentIndex >= st.Results.n THEN HasMoreData(q, st)
    ELSE FALSE

NoRequest == [Start |-> -1, MaxResults |-> -1]

\* What one nextPaper call did: the new state, the item or error returned,
\* the transport invocations made, and the window requested if it fetched
Polled(st, paper, err, calls, fetched, req) ==
    [state |-> st, paper |-> paper, err |-> err, calls |-> calls,
     fetched |-> fetched, req |-> req]

\* Mutant: the limit is not checked before an item is handed out
yieldPaper_NoLimit(q, st, calls, fetched, req) ==
    IF st.Results.id # 0 /\ st.CurrentIndex < st.Results.n
    THEN Polled(ConsumeActionApply(st),
                [res |-> st.Results.id, idx |-> st.CurrentIndex],
                NilErr, calls, fetched, req)
    ELSE Polled(FetchActionApply([Results |-> st.Results, Error |-> NilErr], st),
                NoPaper, NilErr, calls, fetched, req)

\* Mutant: the limit check lets one item too many through
yieldPaper_LimitOffByOne(q, st, calls, fetched, req) ==
    IF st.Results.id # 0 /\ st.CurrentIndex < st.Results.n
    THEN IF q.Limit > 0 /\ st.TotalFetched > q.Limit
         THEN Polled(FetchActionApply([Results |-> st.Results, Error |-> NilErr], st),
                     NoPaper, NilErr, calls, fetched, req)
         ELSE Polled(ConsumeActionApply(st),
                     [res |-> st.Results.id, idx |-> st.CurrentIndex],
                     NilErr, calls, fetched, req)
    ELSE Polled(FetchActionApply([Results |-> st.Results, Error |-> NilErr], st),
                NoPaper, NilErr, calls, fetched, req)

\* Iterator.nextPaper, lines 285-300: hand out the item under the cursor
yieldPaper(q, st, calls, fetched, req) ==
    IF st.Results.id # 0 /\ st.CurrentIndex < st.Results.n
    THEN IF q.Limit > 0 /\ st.TotalFetched >= q.Limit
         THEN Polled(FetchActionApply([Results |-> st.Results, Error |-> NilErr], st),
                     NoPaper, NilErr, calls, fetched, req)
         ELSE Polled(ConsumeActionApply(st),
                     [res |-> st.Results.id, idx |-> st.CurrentIndex],
                     NilErr, calls, fetched, req)
    ELSE Polled(FetchActionApply([Results |-> st.Results, Error |-> NilErr], st),
                NoPaper, NilErr, calls, fetched, req)

\* Mutant: the stored error is handed out once and then forgotten
pollFailed_Consumed(st) ==
    Polled([st EXCEPT !.Current = StateReady, !.Error = NilErr],
           NoPaper, st.Error, 0, FALSE, NoRequest)

\* Iterator.nextPaper, case StateError: the stored error again
pollFailed(st) == Polled(st, NoPaper, st.Error, 0, FALSE, NoRequest)

\* Iterator.nextPaper, case StateExhausted
pollExhausted(st) == Polled(st, NoPaper, NilErr, 0, FALSE, NoRequest)

\* The nil *Query that QueryBuilder.buildQuery returns with an error
NilQuery == [Start |-> 0, MaxResults |-> 0, Limit |-> 0]

\* The error of buildQuery for a builder with neither search query nor ID list
InvalidQueryErr ==
    NewAPIError("invalid_query", "either search query or ID list must be provided")

\* Mutant: the builder's error is dropped
QueryBuilderIterator_DropsError(q, err) == InitialState

\* QueryBuilder.Iterator: the state of the iterator it returns for the
\* (query, err) of buildQuery
QueryBuilderIterator(q, err) ==
    IF err # NilErr
    THEN FetchActionApply([Results |-> NilResults, Error |-> err], InitialState)
    ELSE InitialState

\* Iterator.nextPaper.  out and pay are what the client and the transport do
\* if this call fetches; id names the results object a fetch would allocate.
nextPaper(q, st, out, pay, id) ==
    CASE st.Current = StateError -> pollFailed(st)
      [] st.Current = StateExhausted -> pollExhausted(st)
      [] st.Current \in {StateInitial, StateReady} ->
           IF needsMoreData(q, st)
           THEN IF ~HasMoreData(q, st)
                THEN Polled(FetchActionApply([Results |-> st.Results,
                                              Error |-> NilErr], st),
                            NoPaper, NilErr, 0, FALSE, NoRequest)
                ELSE IF q = NilQuery
                THEN \* nextQuery := *it.query
                     Polled(st, NoPaper, PanicErr, 0, FALSE, NoRequest)
                ELSE LET nextQuery ==
                           [q EXCEPT
                              !.Start = CalculateStartIndex(q, st.CurrentPage, st.Results),
                              !.MaxResults = CalculateMaxResults(q, st.TotalFetched)]
                         req == [Start |-> nextQuery.Start,
                                 MaxResults |-> nextQuery.MaxResults]
                         f == Fetch(nextQuery, out, pay, id)
                         newState == FetchActionApply([Results |-> f.results,
                                                       Error |-> f.err], st)
                     IN IF newState.Current = StateError
                        THEN Polled(newState, NoPaper, newState.Error,
                                    f.calls, TRUE, req)
                        ELSE IF newState.Current = StateExhausted
                        THEN Polled(newState, NoPaper, NilErr, f.calls, TRUE, req)
                        ELSE yieldPaper(q, newState, f.calls, TRUE, req)
           ELSE yieldPaper(q, st, 0, FALSE, NoRequest)
      [] OTHER ->
           Polled(st, NoPaper, NewAPIError("unknown", "unknown iterator state"),
                  0, FALSE, NoRequest)

---------------------------------------------------------------------------
(* The system: one client, one iterator on it, and direct calls *)

Queries == [Start : {0, 1}, MaxResults : 1..MaxPageSize, Limit : 0..MaxLimit]

\* Nothing has been fetched since the iterator was made or Reset
NoHist == [pages |-> << >>, truthful |-> TRUE]

NoOp == [kind |-> "new", ret |-> "-", paper |-> NoPaper, err |-> NilErr,
         calls |-> 0, fetched |-> FALSE, req |-> NoRequest, brk |-> FALSE,
         run |-> << >>, trav |-> [items |-> 0, errs |-> 0, over |-> TRUE],
         hist |-> NoHist]

\* The goroutines that call applyRateLimit on the one client
Callers == 1..MaxCallers

\* A goroutine that has not called yet
IdleCaller == [pc |-> "idle", fired |-> FALSE, late |-> FALSE, due |-> FALSE,
               deadline |-> 0, acquiredAt |-> -1, invokedAt |-> -1, after |-> {},
               queued |-> FALSE]

\* The rate limiter of a new client: rlMu free, lastRequest the zero time.
\* given keeps the RateLimit of the ClientOptions the constructor was called
\* with (options holds what the constructor made of it).
NewLimiter == [now |-> 0, mu |-> 0, lastRequest |-> 0, used |-> FALSE,
               given |-> 0,
               callers |-> [c \in Callers |-> IdleCaller]]

\* No iterator has been made by WithContext
NoDerived == [made |-> FALSE, state |-> InitialState, ctxDone |-> FALSE,
              polls |-> 0, ret |-> "-"]

\* client.Iterator(ctx, query) on a client made by NewClientWithOptions, or
\* client.NewQuery().Iterator(ctx) on a builder that was given no query
Init ==
    /\ options \in IteratorClients
    /\ \/ query \in Queries /\ state = QueryBuilderIterator(query, NilErr)
       \/ query = NilQuery /\ state = QueryBuilderIterator(query, InvalidQueryErr)
    /\ ctxDone = FALSE
    /\ polls = 0
    /\ yielded = << >>
    /\ ample = TRUE
    /\ brokeOn = NoPaper
    /\ lastOp = NoOp
    /\ derived = NoDerived
    /\ limiter = NewLimiter

\* Whether the transport, asked for req, showed that more items exist:
\* it delivered at least what was asked and did not report the end
AmpleFetch(out, pay, req) ==
    /\ out.err = NilErr /\ out.got
    /\ pay.n >= req.MaxResults
    /\ pay.n > 0
    /\ pay.TotalCount = 0
       \/ (IF pay.honour THEN req.Start ELSE 0) + pay.n < pay.TotalCount

Returned(r) ==
    IF r.err = PanicErr THEN "panic"
    ELSE IF r.err # NilErr THEN "error"
    ELSE IF r.paper # NoPaper THEN "item" ELSE "none"

\* Mutant: the range loop goes on after a failure
LoopReturns_NotOnError(r, brk) == (r.err = NilErr /\ r.paper = NoPaper) \/ brk

\* Whether the loop of All() / AllWithError() returns after this nextPaper
\* call: on a failure, on "no more items", or when yield returns false
LoopReturns(r, brk) == r.err # NilErr \/ r.paper = NoPaper \/ brk

\* The traversal (one range over All() or AllWithError()) this call belongs
\* to: the items it has handed to yield, the failures AllWithError() has
\* handed to yield, and whether its loop has returned.  prev is the record
\* after the previous call; a returned loop means this call opens a new one.
Traversal(prev, r, brk) ==
    LET cur == IF prev.over THEN [items |-> 0, errs |-> 0, over |-> FALSE]
               ELSE prev
    IN [items |-> cur.items + (IF r.err = NilErr /\ r.paper # NoPaper THEN 1 ELSE 0),
        errs  |-> cur.errs + (IF r.err \notin {NilErr, PanicErr} THEN 1 ELSE 0),
        over  |-> LoopReturns(r, brk)]

Min(a, b) == IF a < b THEN a ELSE b

\* A transport that does not fail, holds total items, honours the offset and
\* the size of the window it is asked for and reports the true count:
\* whether out and pay are its answer to req
TruthfulFetch(out, pay, req, total) ==
    /\ out.err = NilErr /\ out.got
    /\ pay.honour
    /\ pay.TotalCount = total
    /\ pay.n = (IF req.Start >= total THEN 0
                ELSE Min(req.MaxResults, total - req.Start))

\* What has happened since the iterator was made or Reset: the non-empty
\* pages fetched, in fetch order, each with the number of its items, the
\* offset it was requested at and the start index it reports, and whether
\* every fetch was answered by a truthful transport.  The count such
\* a transport reports is the one of the previous page, or of this page if
\* it is the first.
History(prev, st, r, out, pay) ==
    LET total == IF st.Results.id = 0 THEN pay.TotalCount
                 ELSE st.Results.TotalCount
        page  == r.fetched /\ out.err = NilErr /\ out.got /\ pay.n > 0
    IN [pages    |-> IF page
                     THEN Append(prev.pages,
                                 [id |-> r.state.Results.id, n |-> pay.n,
                                  start |-> r.req.Start,
                                  reported |-> r.state.Results.StartIndex])
                     ELSE prev.pages,
        truthful |-> prev.truthful
                       /\ (r.fetched => TruthfulFetch(out, pay, r.req, total))]

\* One nextPaper call whose item, if any, the consumer takes; brk says the
\* consumer then breaks out of the range loop (yield returns false)
Poll(out, pay, brk) ==
    LET r == nextPaper(query, state, out, pay, polls + 1)
    IN /\ brk => r.paper # NoPaper
       /\ state' = r.state
       /\ polls' = polls + 1
       /\ yielded' = IF r.paper # NoPaper THEN Append(yielded, r.paper) ELSE yielded
       /\ ctxDone' = (ctxDone \/ (r.fetched /\ out.cancelled))
       /\ ample' = (ample /\ (r.fetched => AmpleFetch(out, pay, r.req)))
       /\ brokeOn' = IF brk THEN r.paper ELSE brokeOn
       /\ lastOp' = [kind |-> "poll", ret |-> Returned(r), paper |-> r.paper,
                     err |-> r.err, calls |-> r.calls, fetched |-> r.fetched,
                     req |-> r.req, brk |-> brk, run |-> << >>,
                     trav |-> Traversal(lastOp.trav, r, brk),
                     hist |-> History(lastOp.hist, state, r, out, pay)]
       /\ UNCHANGED <<options, query, derived, limiter>>

\* An outcome to probe nextPaper with: whether it fetches does not depend on it
ProbeOutcome == [err |-> NilErr, got |-> FALSE, calls |-> 0, cancelled |-> FALSE]

WouldFetch == nextPaper(query, state, ProbeOutcome, NoPayload, polls + 1).fetched

\* The environment of one poll: what the client's retried call comes to and,
\* if it succeeds, what the transport delivered
PollWith(brk) ==
    IF WouldFetch
    THEN \E out \in Outcomes(options, ctxDone) :
            IF out.err = NilErr /\ out.got
            THEN \E pay \in Payloads : Poll(out, pay, brk)
            ELSE Poll(out, NoPayload, brk)
    ELSE Poll(ProbeOutcome, NoPayload, brk)

\* pollNext: Iterator.nextPaper, as one iteration of All() that goes on
PollNext ==
    /\ polls < MaxPolls
    /\ PollWith(FALSE)

\* An iteration of All() / AllWithError() on which the consumer breaks
AllBreak ==
    /\ polls < MaxPolls
    /\ PollWith(TRUE)

\* Mutant: Reset keeps the page number
Reset_KeepsPage ==
    /\ state' = [InitialState EXCEPT !.CurrentPage = state.CurrentPage]
    /\ query' = IF query = NilQuery THEN query ELSE [query EXCEPT !.Start = 0]
    /\ yielded' = << >>
    /\ ample' = TRUE
    /\ brokeOn' = NoPaper
    /\ polls' = 0
    /\ lastOp' = [NoOp EXCEPT !.kind = "reset", !.ret = state.Current]
    /\ UNCHANGED <<options, ctxDone, derived, limiter>>

\* Mutant: Reset keeps the stored error
Reset_KeepsError ==
    /\ state' = [InitialState EXCEPT !.Error = state.Error]
    /\ query' = IF query = NilQuery THEN query ELSE [query EXCEPT !.Start = 0]
    /\ yielded' = << >>
    /\ ample' = TRUE
    /\ brokeOn' = NoPaper
    /\ polls' = 0
    /\ lastOp' = [NoOp EXCEPT !.kind = "reset", !.ret = state.Current]
    /\ UNCHANGED <<options, ctxDone, derived, limiter>>

\* Iterator.Reset; lastOp.ret keeps the phase it was applied in
Reset ==
    /\ state' = InitialState
    /\ query' = IF query = NilQuery THEN query ELSE [query EXCEPT !.Start = 0]
    /\ yielded' = << >>
    /\ ample' = TRUE
    /\ brokeOn' = NoPaper
    /\ polls' = 0
    /\ lastOp' = [NoOp EXCEPT !.kind = "reset", !.ret = state.Current]
    /\ UNCHANGED <<options, ctxDone, derived, limiter>>

\* The iterator's context is cancelled between two operations
Cancel ==
    /\ ~ctxDone
    /\ ctxDone' = TRUE
    /\ UNCHANGED <<options, query, state, polls, yielded, ample, brokeOn, lastOp,
                   derived, limiter>>

\* A direct client.Search(ctx, query) with a context of its own
DirectSearch ==
    \E done \in BOOLEAN : \E run \in Runs(options, done) :
       /\ lastOp' = [NoOp EXCEPT
                       !.kind = "search",
                       !.ret = IF run.err # NilErr THEN "error"
                               ELSE IF run.got THEN "result" ELSE "nothing",
                       !.err = run.err,
                       !.calls = run.calls,
                       !.run = <<run>>]
       /\ UNCHANGED <<options, query, state, ctxDone, polls, yielded, ample,
                      brokeOn, derived, limiter>>

\* Mutant: an empty page is handed back as "no paper, no error"
GetByID_EmptyIsNil(empty, run, n) ==
    IF empty
    THEN [ret |-> "error", calls |-> 0,
          err |-> NewAPIError("invalid_query", "id cannot be empty")]
    ELSE IF run.err # NilErr
    THEN [ret |-> "error", calls |-> run.calls, err |-> run.err]
    ELSE IF ~run.got
    THEN [ret |-> "panic", calls |-> run.calls, err |-> PanicErr]
    ELSE [ret |-> IF n = 0 THEN "nothing" ELSE "paper",
          calls |-> run.calls, err |-> NilErr]

\* client.GetByID(ctx, id): empty says id = "", run is the retried Search of
\* Query{IDList: [id], MaxResults: 1}, n the number of papers in the page it
\* parsed.  A Search that returned (nil, nil) makes results.Papers a nil
\* pointer dereference.
GetByID(empty, run, n) ==
    IF empty
    THEN [ret |-> "error", calls |-> 0,
          err |-> NewAPIError("invalid_query", "id cannot be empty")]
    ELSE IF run.err # NilErr
    THEN [ret |-> "error", calls |-> run.calls, err |-> run.err]
    ELSE IF ~run.got
    THEN [ret |-> "panic", calls |-> run.calls, err |-> PanicErr]
    ELSE IF n = 0
    THEN [ret |-> "error", calls |-> run.calls,
          err |-> NewAPIError("not_found", "paper not found")]
    ELSE [ret |-> "paper", calls |-> run.calls, err |-> NilErr]

\* The run of a call that never reached Search
NoRun == [err |-> NilErr, got |-> FALSE, calls |-> 0, trace |-> << >>,
          script |-> << >>, done |-> FALSE, cancelled |-> FALSE,
          firedAt |-> NoCancel]

\* A direct client.GetByID(ctx, id) with a context of its own; the second
\* element of run records the inputs of the call.  An empty id returns before
\* Search is called, and only a page that was parsed has a number of papers.
DirectGetByID ==
    \E empty \in BOOLEAN, done \in BOOLEAN :
       \E run \in IF empty THEN {NoRun} ELSE Runs(options, done) :
          \E n \in IF run.got THEN 0..1 ELSE {0} :
             LET r == GetByID(empty, run, n) IN
             /\ lastOp' = [NoOp EXCEPT
                             !.kind = "getbyid",
                             !.ret = r.ret,
                             !.err = r.err,
                             !.calls = r.calls,
                             !.run = <<run, [empty |-> empty, n |-> n]>>]
             /\ UNCHANGED <<options, query, state, ctxDone, polls, yielded,
                            ample, brokeOn, derived, limiter>>

Next == PollNext \/ AllBreak \/ Reset \/ Cancel

Spec == Init /\ [][Next]_vars

\* Direct calls on every client, the iterator left alone
InitClient ==
    /\ options \in Clients
    /\ query = [Start |-> 0, MaxResults |-> 1, Limit |-> 0]
    /\ state = InitialState
    /\ ctxDone = FALSE
    /\ polls = 0
    /\ yielded = << >>
    /\ ample = TRUE
    /\ brokeOn = NoPaper
    /\ lastOp = NoOp
    /\ derived = NoDerived
    /\ limiter = NewLimiter

NextClient == DirectSearch

SpecClient == InitClient /\ [][NextClient]_vars

\* GetByID calls on every client
NextGetByID == DirectGetByID

SpecGetByID == InitClient /\ [][NextGetByID]_vars

---------------------------------------------------------------------------
(* Paginator.HasMoreData as a function of the state it is given *)

\* The states a page can leave behind: a page of n items that reports start
\* index s and total count t, fetched when before items had been consumed,
\* of which k have been consumed since.  Under a limit a page is requested
\* only below it and items are consumed only up to it.
PageStates(q) ==
    { [Current |-> IF n = 0 THEN StateExhausted ELSE StateReady,
       CurrentPage |-> IF n = 0 THEN 0 ELSE 1,
       CurrentIndex |-> k,
       TotalFetched |-> before + k,
       Error |-> NilErr,
       Results |-> [id |-> 1, StartIndex |-> s, n |-> n, TotalCount |-> t]] :
        <<n, s, t, before, k>> \in
           { x \in (0..MaxItems) \X (0..MaxItems)
                     \X {0, 2, MaxItems * MaxPolls + 1}
                     \X (0..MaxItems) \X (0..MaxItems) :
               /\ x[5] <= x[1]
               /\ q.Limit > 0 => x[4] < q.Limit /\ x[4] + x[5] <= q.Limit } }

\* The number of items consumed when the page a state holds was requested
ConsumedAtRequest(st) == st.TotalFetched - st.CurrentIndex

\* A paginator, a state for it, and the window that was requested for the
\* page the state holds
InitPaginator ==
    /\ options \in IteratorClients
    /\ query \in Queries
    /\ state \in {InitialState} \cup PageStates(query)
    /\ ctxDone = FALSE
    /\ polls = 0
    /\ yielded = << >>
    /\ ample = TRUE
    /\ brokeOn = NoPaper
    /\ lastOp = IF state.Results.id = 0 THEN NoOp
                ELSE [NoOp EXCEPT
                        !.req = [Start |-> state.Results.StartIndex,
                                 MaxResults |->
                                    CalculateMaxResults(query,
                                                        ConsumedAtRequest(state))]]
    /\ derived = NoDerived
    /\ limiter = NewLimiter

\* p.HasMoreData(state); lastOp.req keeps the window of the state's page
EvalHasMoreData ==
    /\ lastOp.kind = "new"
    /\ lastOp' = [lastOp EXCEPT
                    !.kind = "hasmore",
                    !.ret = IF HasMoreData(query, state) THEN "true" ELSE "false"]
    /\ UNCHANGED <<options, query, state, ctxDone, polls, yielded, ample,
                   brokeOn, derived, limiter>>

NextPaginator == EvalHasMoreData

SpecPaginator == InitPaginator /\ [][NextPaginator]_vars

---------------------------------------------------------------------------
(* An iterator and the one WithContext makes of it *)

\* Iterator.WithContext(ctx): a new StateManager and a fetcher on ctx; the
\* paginator and the *Query are the original's
WithContext ==
    /\ ~derived.made
    /\ derived' = [made |-> TRUE, state |-> InitialState, ctxDone |-> FALSE,
                   polls |-> 0, ret |-> "new"]
    /\ UNCHANGED <<options, query, state, ctxDone, polls, yielded, ample, brokeOn,
                   lastOp, limiter>>

\* One nextPaper call on the derived iterator; the results objects it
\* allocates are none of the original's
DerivedPoll(out, pay) ==
    LET r == nextPaper(query, derived.state, out, pay, MaxPolls + derived.polls + 1)
    IN /\ derived' = [derived EXCEPT
                        !.state = r.state,
                        !.polls = @ + 1,
                        !.ctxDone = @ \/ (r.fetched /\ out.cancelled),
                        !.ret = Returned(r)]
       /\ UNCHANGED <<options, query, state, ctxDone, polls, yielded, ample,
                      brokeOn, lastOp, limiter>>

DerivedWouldFetch ==
    nextPaper(query, derived.state, ProbeOutcome, NoPayload, MaxPolls + 1).fetched

PollDerived ==
    /\ derived.made
    /\ derived.polls < MaxDerivedPolls
    /\ IF DerivedWouldFetch
       THEN \E out \in Outcomes(options, derived.ctxDone) :
               IF out.err = NilErr /\ out.got
               THEN \E pay \in Payloads : DerivedPoll(out, pay)
               ELSE DerivedPoll(out, NoPayload)
       ELSE DerivedPoll(ProbeOutcome, NoPayload)

\* Iterator.Reset on the derived iterator: its own state manager, and the
\* Start of the Query it shares with the original
ResetDerived ==
    /\ derived.made
    /\ derived' = [derived EXCEPT !.state = InitialState, !.polls = 0,
                                  !.ret = "reset"]
    /\ query' = IF query = NilQuery THEN query ELSE [query EXCEPT !.Start = 0]
    /\ UNCHANGED <<options, state, ctxDone, polls, yielded, ample, brokeOn, lastOp,
                   limiter>>

\* The queries and the client the pair of iterators is explored on
InitWithContext ==
    /\ options = NewClientWithOptions([RetryAttempts |-> 2, RetryDelay |-> 0,
                                       RateLimit |-> -1])
    /\ query \in { q \in Queries : q.Limit = 0 }
    /\ state = InitialState
    /\ ctxDone = FALSE
    /\ polls = 0
    /\ yielded = << >>
    /\ ample = TRUE
    /\ brokeOn = NoPaper
    /\ lastOp = NoOp
    /\ derived = NoDerived
    /\ limiter = NewLimiter

NextWithContext == PollNext \/ Reset \/ WithContext \/ PollDerived \/ ResetDerived

SpecWithContext == InitWithContext /\ [][NextWithContext]_vars

---------------------------------------------------------------------------
(* The rate limiter step by step, under concurrent callers:                *)
(* Client.applyRateLimit and the httpClient.Do that follows it.  Each      *)
(* caller is one attempt of one request with a context of its own.         *)

iterVars == <<options, query, state, ctxDone, polls, yielded, ample, brokeOn,
              lastOp, derived>>

Caller(c) == limiter.callers[c]

\* The points of applyRateLimit: blocked in rlMu.Lock(), between the two
\* clock readings, and in the select on the timer and ctx.Done()
InAcquire(c) == Caller(c).pc \in {"lock", "measure", "select"}

WithCaller(c, rec) == [limiter EXCEPT !.callers[c] = rec]

\* A goroutine calls Search: it arrives at c.rlMu.Lock().  It remembers the
\* requests that were over before it called, and whether it found rlMu held.
\* The goroutines are numbered in the order in which they call.
Call(c) ==
    /\ Caller(c).pc = "idle"
    /\ \A d \in Callers : d < c => Caller(d).pc # "idle"
    /\ limiter' = WithCaller(c, [Caller(c) EXCEPT
                      !.pc = "lock",
                      !.queued = (limiter.mu # 0),
                      !.after = { d \in Callers : Caller(d).pc = "finished" }])
    /\ UNCHANGED iterVars

\* Mutant: the mutex is released before the wait
HolderAfterLock_Nobody(c) == 0

\* Who holds rlMu once Lock() has returned to c: c, until applyRateLimit
\* returns (defer c.rlMu.Unlock())
HolderAfterLock(c) == c

\* Mutant: nothing is waited
WaitFor_Nothing(opts, elapsed) == 0

\* wait := c.options.RateLimit - elapsed
WaitFor(opts, elapsed) == opts.RateLimit - elapsed

\* c.rlMu.Lock() returns, c.lastRequest = time.Now(), and with rate limiting
\* disabled applyRateLimit returns at once.  due says that this is the first
\* acquire or that RateLimit had passed since the previous one's timestamp.
Lock(c) ==
    /\ Caller(c).pc = "lock"
    /\ limiter.mu = 0
    /\ LET due == ~limiter.used \/ limiter.now - limiter.lastRequest >= options.RateLimit
           lim == [limiter EXCEPT !.lastRequest = limiter.now, !.used = TRUE]
       IN limiter' =
             IF options.RateLimit <= 0
             THEN [lim EXCEPT !.callers[c].pc = "do",
                              !.callers[c].acquiredAt = limiter.now]
             ELSE [lim EXCEPT !.mu = HolderAfterLock(c),
                              !.callers[c].pc = "measure",
                              !.callers[c].due = due]
    /\ UNCHANGED iterVars

\* elapsed := time.Since(c.lastRequest): return if RateLimit has passed,
\* else start the timer and go to the select
Measure(c) ==
    /\ Caller(c).pc = "measure"
    /\ LET elapsed == limiter.now - limiter.lastRequest
       IN limiter' =
             IF elapsed >= options.RateLimit
             THEN [limiter EXCEPT !.mu = IF @ = c THEN 0 ELSE @,
                                  !.callers[c].pc = "do",
                                  !.callers[c].due = FALSE,
                                  !.callers[c].acquiredAt = limiter.now]
             ELSE [limiter EXCEPT !.callers[c].pc = "select",
                                  !.callers[c].deadline =
                                      limiter.now + WaitFor(options, elapsed)]
    /\ UNCHANGED iterVars

\* case <-t.C: return nil
TimerFires(c) ==
    /\ Caller(c).pc = "select"
    /\ limiter.now >= Caller(c).deadline
    /\ limiter' = [limiter EXCEPT !.mu = IF @ = c THEN 0 ELSE @,
                                  !.callers[c].pc = "do",
                                  !.callers[c].due = FALSE,
                                  !.callers[c].deadline = 0,
                                  !.callers[c].acquiredAt = limiter.now]
    /\ UNCHANGED iterVars

\* Mutant: a cancelled holder returns without releasing rlMu
CancelObserved_KeepsLock(c) ==
    /\ Caller(c).pc = "select"
    /\ Caller(c).fired
    /\ limiter' = [limiter EXCEPT !.callers[c].pc = "cancelled",
                                  !.callers[c].due = FALSE,
                                  !.callers[c].deadline = 0]
    /\ UNCHANGED iterVars

\* case <-ctx.Done(): return ctx.Err()
CancelObserved(c) ==
    /\ Caller(c).pc = "select"
    /\ Caller(c).fired
    /\ limiter' = [limiter EXCEPT !.mu = IF @ = c THEN 0 ELSE @,
                                  !.callers[c].pc = "cancelled",
                                  !.callers[c].due = FALSE,
                                  !.callers[c].deadline = 0]
    /\ UNCHANGED iterVars

\* c.httpClient.Do(req): the transport invocation
Do(c) ==
    /\ Caller(c).pc = "do"
    /\ limiter' = [limiter EXCEPT !.callers[c].pc = "finished",
                                  !.callers[c].invokedAt = limiter.now]
    /\ UNCHANGED iterVars

\* The context of c is cancelled while c is in applyRateLimit
Fire(c) ==
    /\ InAcquire(c)
    /\ ~Caller(c).fired
    /\ limiter' = [limiter EXCEPT !.callers[c].fired = TRUE]
    /\ UNCHANGED iterVars

\* c can take a step of applyRateLimit now
CanStep(c) ==
    \/ Caller(c).pc = "lock" /\ limiter.mu = 0
    \/ Caller(c).pc \in {"measure", "select"}

\* Time passes.  A goroutine whose context is done and that can run does so
\* before the clock moves: what it waits from then on, it waits blocked, and
\* late records that it was still in applyRateLimit when the clock moved.
TickUntil(last) ==
    /\ limiter.now < last
    /\ \A c \in Callers : Caller(c).fired => ~CanStep(c)
    /\ limiter' = [limiter EXCEPT
                     !.now = @ + 1,
                     !.callers = [c \in Callers |->
                                    [@[c] EXCEPT !.late = @ \/ (Caller(c).fired
                                                                /\ InAcquire(c))]]]
    /\ UNCHANGED iterVars

Tick == TickUntil(MaxTime)

\* One client; its rate limit is the default, a configured one, or disabled
InitLimiter ==
    /\ \E d \in {-1, 0, 2} :
          /\ options = NewClientWithOptions([RetryAttempts |-> 1, RetryDelay |-> 0,
                                            RateLimit |-> d])
          /\ limiter = [NewLimiter EXCEPT !.given = d]
    /\ query = [Start |-> 0, MaxResults |-> 1, Limit |-> 0]
    /\ state = InitialState
    /\ ctxDone = FALSE
    /\ polls = 0
    /\ yielded = << >>
    /\ ample = TRUE
    /\ brokeOn = NoPaper
    /\ lastOp = NoOp
    /\ derived = NoDerived

NextLimiter ==
    \/ \E c \in Callers : Call(c)
    \/ \E c \in Callers : Lock(c)
    \/ \E c \in Callers : Measure(c)
    \/ \E c \in Callers : TimerFires(c)
    \/ \E c \in Callers : CancelObserved(c)
    \/ \E c \in Callers : Do(c)
    \/ \E c \in Callers : Fire(c)
    \/ Tick

SpecLimiter == InitLimiter /\ [][NextLimiter]_vars

---------------------------------------------------------------------------
(* The rate limiter under fair scheduling.  Progress does not depend on   *)
(* how far the clock is told apart: here it stops at MaxFairTime, which    *)
(* stands for every later time as well, and a timer that is still pending  *)
(* then fires then.                                                        *)

TickFair == TickUntil(MaxFairTime)

\* case <-t.C: return nil, for a timer whose deadline lies past the last
\* time the model tells apart
TimerFiresLate(c) ==
    /\ Caller(c).pc = "select"
    /\ limiter.now = MaxFairTime
    /\ limiter.now < Caller(c).deadline
    /\ limiter' = [limiter EXCEPT !.mu = IF @ = c THEN 0 ELSE @,
                                  !.callers[c].pc = "do",
                                  !.callers[c].due = FALSE,
                                  !.callers[c].deadline = 0,
                                  !.callers[c].acquiredAt = limiter.now]
    /\ UNCHANGED iterVars

NextLimiterFair ==
    \/ \E c \in Callers : Call(c)
    \/ \E c \in Callers : Lock(c)
    \/ \E c \in Callers : Measure(c)
    \/ \E c \in Callers : TimerFires(c)
    \/ \E c \in Callers : TimerFiresLate(c)
    \/ \E c \in Callers : CancelObserved(c)
    \/ \E c \in Callers : Do(c)
    \/ \E c \in Callers : Fire(c)
    \/ TickFair

\* Every goroutine that can take a step eventually takes it (the Go scheduler
\* runs every runnable goroutine, sync.Mutex hands the lock to a waiter), time
\* passes, and a running timer fires
FairLimiter ==
    /\ \A c \in Callers :
          /\ WF_vars(Lock(c))
          /\ WF_vars(Measure(c))
          /\ WF_vars(TimerFires(c))
          /\ WF_vars(TimerFiresLate(c))
          /\ WF_vars(CancelObserved(c))
          /\ WF_vars(Do(c))
    /\ WF_vars(TickFair)

SpecLimiterFair == InitLimiter /\ [][NextLimiterFair]_vars /\ FairLimiter

---------------------------------------------------------------------------
(* Properties of the iterator, checked under Spec *)

\* The step is a nextPaper call
IsPollStep == polls' = polls + 1

\* C1: once nextPaper has returned "no more items", the next nextPaper call
\* (no Reset in between) returns "no more items" again and changes nothing:
\* TotalFetched, CurrentPage, CurrentIndex and the phase stay as they are and
\* no item is yielded.
C1_ExhaustedIsTerminal ==
    [][ (lastOp.kind = "poll" /\ lastOp.ret = "none" /\ IsPollStep)
          => /\ lastOp'.ret = "none"
             /\ state' = state
             /\ yielded' = yielded ]_vars

\* C1, the case that holds: the phase StateExhausted itself is terminal
ExhaustedPhaseIsTerminal ==
    [][ (state.Current = StateExhausted /\ IsPollStep)
          => /\ lastOp'.ret = "none"
             /\ lastOp'.calls = 0
             /\ state' = state
             /\ yielded' = yielded ]_vars

\* C2: a failed fetch leaves the iterator in StateError with the failure
\* stored, and from then on every nextPaper call (until Reset) returns that
\* same failure, yields nothing, invokes no transport and changes nothing.
C2_FailedIsAbsorbing ==
    /\ [](lastOp.kind = "poll" /\ lastOp.ret = "error"
            => state.Current = StateError /\ state.Error = lastOp.err)
    /\ [][ (state.Current = StateError /\ IsPollStep)
             => /\ lastOp'.ret = "error"
                /\ lastOp'.err = state.Error
                /\ lastOp'.paper = NoPaper
                /\ lastOp'.calls = 0
                /\ ~lastOp'.fetched
                /\ state' = state
                /\ yielded' = yielded ]_vars

\* C2 witness: a fetch gave up after retrying, and a later poll returned
\* the stored failure without fetching
C2_Witness ==
    /\ state.Current = StateError /\ state.Error.retry
    /\ lastOp.kind = "poll" /\ lastOp.ret = "error" /\ ~lastOp.fetched

\* C3: TotalFetched is the number of nextPaper calls that returned an item
\* since creation or the last Reset: a call that returns an item adds exactly
\* 1, any other call adds nothing, and only Reset lowers it.
C3_MonotonicConsumption ==
    /\ [](state.TotalFetched = Len(yielded))
    /\ [][ IsPollStep =>
             state'.TotalFetched = state.TotalFetched
                                   + (IF lastOp'.ret = "item" THEN 1 ELSE 0) ]_vars
    /\ [][ state'.TotalFetched < state.TotalFetched => lastOp'.kind = "reset" ]_vars

\* C3 witness: items were yielded, then polls returned none and an error-free
\* count stayed
C3_Witness ==
    /\ state.TotalFetched = 2 /\ Len(yielded) = 2
    /\ lastOp.kind = "poll" /\ lastOp.ret = "none"

\* C4: with Limit = L > 0 and a transport that always shows more items
\* (at least as many as asked for, possibly more), every nextPaper call
\* returns an item until L have been yielded, and "no more items" afterwards
\* with TotalFetched = L.
C4_LimitEnforcement ==
    (query.Limit > 0 /\ ample /\ lastOp.kind = "poll")
       => \/ lastOp.ret = "item" /\ Len(yielded) <= query.Limit
          \/ /\ lastOp.ret = "none"
             /\ Len(yielded) = query.Limit
             /\ state.TotalFetched = query.Limit

\* C4 witness: the limit ended a traversal whose last page held more items
\* than were left to take
C4_Witness ==
    /\ query.Limit = MaxLimit /\ ample
    /\ lastOp.kind = "poll" /\ lastOp.ret = "none"
    /\ state.TotalFetched = query.Limit
    /\ state.Results.n > 1 /\ query.MaxResults = 1

\* C5 as claimed: each nextPaper call triggers 0 or 1 transport invocations
C5_AtMostOneRequest ==
    lastOp.kind = "poll" => lastOp.calls <= 1

\* C5 amended: each nextPaper call makes at most one retried fetch, so at
\* most RetryAttempts transport invocations, none if it did not fetch; and a
\* call that finds an unconsumed item in the current window does not fetch.
C5_AtMostOneFetch ==
    /\ [](lastOp.kind = "poll" =>
            /\ lastOp.calls >= 0
            /\ lastOp.calls <= (IF options.RetryAttempts > 0
                                THEN options.RetryAttempts ELSE 0)
            /\ ~lastOp.fetched => lastOp.calls = 0)
    /\ [][ (/\ IsPollStep
            /\ state.Current \in {StateInitial, StateReady}
            /\ state.Results.id # 0
            /\ state.CurrentIndex < state.Results.n)
             => lastOp'.calls = 0 /\ ~lastOp'.fetched ]_vars

\* C5 witness: one poll whose fetch took two transport invocations
C5_Witness ==
    lastOp.kind = "poll" /\ lastOp.fetched /\ lastOp.calls = 2 /\ lastOp.ret = "item"

\* C6: when the consumer breaks out of All() on an item, that item is counted
\* (TotalFetched is the number of items received), the cursor stands right
\* behind it in the window it came from, a transport call was made only if
\* the item opened a new window, and no later nextPaper call (without Reset)
\* yields that item again.
C6_EarlyBreak ==
    /\ []((lastOp.kind = "poll" /\ lastOp.brk) =>
            /\ state.TotalFetched = Len(yielded)
            /\ lastOp.paper = brokeOn
            /\ state.Results.id = brokeOn.res
            /\ state.CurrentIndex = brokeOn.idx + 1
            /\ brokeOn.idx > 0 => lastOp.calls = 0)
    /\ [][ (IsPollStep /\ brokeOn # NoPaper /\ lastOp'.ret = "item")
             => lastOp'.paper # brokeOn ]_vars

\* C6, the part that holds: the accounting at the moment of the break
BreakLeavesCursorBehindItem ==
    (lastOp.kind = "poll" /\ lastOp.brk) =>
       /\ state.TotalFetched = Len(yielded)
       /\ lastOp.paper = brokeOn
       /\ state.Results.id = brokeOn.res
       /\ state.CurrentIndex = brokeOn.idx + 1
       /\ brokeOn.idx > 0 => lastOp.calls = 0

\* C17: Reset, in whatever phase it is applied, leaves the iterator in
\* StateInitial with TotalFetched, CurrentPage and CurrentIndex 0 and neither
\* results nor error stored.
C17_ResetRestoresInitial ==
    /\ [](lastOp.kind = "reset" =>
            /\ state.Current = StateInitial
            /\ state.TotalFetched = 0
            /\ state.CurrentPage = 0
            /\ state.CurrentIndex = 0
            /\ state.Results = NilResults
            /\ state.Error = NilErr)
    /\ [][ (lastOp'.kind = "reset" /\ lastOp' # lastOp)
             => /\ lastOp'.ret = state.Current
                /\ state' = InitialState ]_vars

\* C17 witness: a Reset applied to a failed iterator that had yielded an item
C17_Witness ==
    /\ lastOp.kind = "reset" /\ lastOp.ret = StateError
    /\ state = InitialState

\* C18: when a fetch fails after a traversal has yielded k items, the call
\* yields no item and the loop returns: All() has yielded those k items and
\* the failure is what Error() returns; AllWithError() has yielded the k
\* items and then the failure, once, as its last element.
C18_FailureEndsTraversal ==
    /\ []((lastOp.kind = "poll" /\ lastOp.ret = "error") =>
            /\ lastOp.paper = NoPaper
            /\ lastOp.err # NilErr
            /\ state.Error = lastOp.err
            /\ lastOp.trav.over
            /\ lastOp.trav.errs = 1
            /\ lastOp.trav.items <= Len(yielded)
            /\ state.TotalFetched = Len(yielded))
    /\ [](lastOp.trav.errs <= 1 /\ (lastOp.trav.errs = 1 => lastOp.trav.over))
    /\ [][ (IsPollStep /\ lastOp'.ret = "error")
             => /\ yielded' = yielded
                /\ lastOp'.trav.items =
                      (IF lastOp.trav.over THEN 0 ELSE lastOp.trav.items) ]_vars

\* C18 witness: a traversal yielded two items from two pages and the fetch
\* of the third page failed
C18_Witness ==
    /\ lastOp.kind = "poll" /\ lastOp.ret = "error" /\ lastOp.fetched
    /\ lastOp.trav.items = 2 /\ lastOp.trav.errs = 1 /\ lastOp.trav.over
    /\ Len(yielded) = 2 /\ state.CurrentPage = 2

\* C20: an iterator built from a builder with neither search query nor ID
\* list starts in StateError with the invalid-query failure stored; as long
\* as it is not Reset every nextPaper call returns that failure and changes
\* nothing; it never yields an item and never fetches, so it makes no
\* transport invocation and no applyRateLimit call.
C20_InvalidQueryStartsFailed ==
    /\ (query = NilQuery =>
           /\ state.Current = StateError
           /\ state.Error = InvalidQueryErr
           /\ state.Error.type = "invalid_query")
    /\ [][ (query = NilQuery /\ state.Current = StateError /\ IsPollStep)
             => /\ lastOp'.ret = "error"
                /\ lastOp'.err = InvalidQueryErr
                /\ lastOp'.paper = NoPaper
                /\ lastOp'.calls = 0
                /\ ~lastOp'.fetched
                /\ state' = state ]_vars
    /\ [](query = NilQuery =>
            /\ yielded = << >>
            /\ state.TotalFetched = 0
            /\ lastOp.calls = 0
            /\ ~lastOp.fetched
            /\ state.Current # StateInitial => state.Error = InvalidQueryErr)

\* C20 witness: the second poll of such an iterator
C20_Witness ==
    /\ query = NilQuery /\ polls = 2
    /\ lastOp.kind = "poll" /\ lastOp.ret = "error" /\ lastOp.err = InvalidQueryErr
    /\ state.Current = StateError

---------------------------------------------------------------------------
(* Properties of the retry coordinator, checked under SpecClient *)

\* The run of the last direct Search
LastRun == lastOp.run[1]

\* The context was neither done before the operation nor fired during it
NoCtx(run) == ~run.done /\ ~run.cancelled

AllRetryable(script) == \A i \in DOMAIN script : RetryableResponse(script[i])

Max(a, b) == IF a >= b THEN a ELSE b

\* C7: if every attempt fails retryably and RetryAttempts = N >= 1, a Search
\* (not cancelled) makes exactly N transport invocations and returns the
\* failure of the last attempt, still marked retryable.
C7_RetryExhaustion ==
    (/\ lastOp.kind = "search"
     /\ options.RetryAttempts >= 1
     /\ NoCtx(LastRun)
     /\ Len(LastRun.script) = options.RetryAttempts
     /\ AllRetryable(LastRun.script))
       => /\ LastRun.calls = options.RetryAttempts
          /\ LastRun.err = ResponseError(LastRun.script[options.RetryAttempts])
          /\ LastRun.err.retry
          /\ ~LastRun.got
          /\ lastOp.ret = "error"

\* C7 witness: three attempts, the first and the last failing differently
C7_Witness ==
    /\ lastOp.kind = "search" /\ options.RetryAttempts = 3 /\ NoCtx(LastRun)
    /\ LastRun.script = <<"status", "neterr", "throttle">>
    /\ LastRun.calls = 3 /\ LastRun.err.type = "rate_limit"

\* The failure, if any, that attempt t of a run ended with
AttemptError(t) ==
    IF ~t.invoked THEN CtxErr
    ELSE IF t.resp = "ctx" THEN NewAPIError("network", "failed to make request")
    ELSE ResponseError(t.resp)

Invocations(trace) == Cardinality({ k \in DOMAIN trace : trace[k].invoked })

C10_RecoversAfterRetries ==
    (/\ lastOp.kind = "search"
     /\ NoCtx(LastRun)
     /\ Len(LastRun.script) >= 1
     /\ LastRun.script[Len(LastRun.script)] = "ok"
     /\ AllRetryable(SubSeq(LastRun.script, 1, Len(LastRun.script) - 1)))
       => /\ LastRun.calls = Len(LastRun.script)
          /\ LastRun.err = NilErr
          /\ LastRun.got
          /\ lastOp.ret = "result"

\* C10 witness: two retryable failures, then success on the last attempt
C10_Witness ==
    /\ lastOp.kind = "search" /\ options.RetryAttempts = 3 /\ NoCtx(LastRun)
    /\ LastRun.script = <<"throttle", "status", "ok">>
    /\ LastRun.calls = 3 /\ lastOp.ret = "result"

\* The context fired while the operation was under way
CancelledMidway(run) == ~run.done /\ run.cancelled

\* C15: a Search whose context is cancelled while it is under way (in the
\* rate-limit wait, in the HTTP call or in the retry delay, on any attempt)
\* returns the context's error, which is no APIError and so neither a fatal
\* nor a retryable transport failure.
C15_CancellationSurfaces ==
    (lastOp.kind = "search" /\ CancelledMidway(LastRun))
       => /\ LastRun.err = CtxErr
          /\ lastOp.ret = "error"

\* C16 as claimed: a response with an unexpected status ends the operation
\* at once, with one transport invocation and a failure not marked retryable.
C16_UnexpectedStatusIsFatal ==
    (/\ lastOp.kind = "search"
     /\ NoCtx(LastRun)
     /\ Len(LastRun.script) >= 1
     /\ LastRun.script[1] = "status")
       => /\ LastRun.calls = 1
          /\ LastRun.err = ResponseError("status")
          /\ ~LastRun.err.retry

\* C16 amended: a response with an unexpected status is made a network
\* failure, marked retryable, and is retried like a throttling response: an
\* attempt that ends with it is followed by another unless it was the last
\* one allowed, and then it is the failure returned.  Of the transport's
\* failures only a malformed response ends the operation where it occurs.
C16_UnexpectedStatusIsRetried ==
    (lastOp.kind = "search" /\ NoCtx(LastRun)) =>
       \A k \in DOMAIN LastRun.trace :
          /\ LastRun.trace[k].resp = "status" =>
                /\ ResponseError("status").type = "network"
                /\ ResponseError("status").retry
                /\ k < options.RetryAttempts => Len(LastRun.trace) > k
                /\ k = options.RetryAttempts =>
                      LastRun.err = ResponseError("status")
          /\ (k < Len(LastRun.trace)) => LastRun.trace[k].resp # "malformed"

\* C16 witness: an unexpected status on the first attempt, success on the
\* second
C16_Witness ==
    /\ lastOp.kind = "search" /\ NoCtx(LastRun)
    /\ LastRun.script = <<"status", "ok">>
    /\ LastRun.calls = 2 /\ lastOp.ret = "result"

---------------------------------------------------------------------------
(* Properties of an iterator and its WithContext copy, checked under       *)
(* SpecWithContext                                                         *)

\* The step is an operation on the derived iterator, or makes it
IsDerivedStep == derived' # derived

\* The step is an operation on the original iterator
IsOriginalStep == lastOp' # lastOp

\* C19: WithContext makes an iterator in StateInitial with zero counters;
\* making it, polling it or resetting it changes nothing of the original,
\* polling or resetting the original changes nothing of it, and no step of
\* either changes the Query they share: nothing but the rate limiter is
\* shared and written.
C19_WithContextIsIndependent ==
    /\ []((derived.made /\ derived.ret = "new") => derived.state = InitialState)
    /\ [][ IsDerivedStep => state' = state /\ yielded' = yielded ]_vars
    /\ [][ IsOriginalStep => derived' = derived ]_vars
    /\ [][ derived.made => query' = query ]_vars

\* C19, the part that holds: the two iterators' states are apart
WithContextLeavesStateAlone ==
    /\ []((derived.made /\ derived.ret = "new") => derived.state = InitialState)
    /\ [][ IsDerivedStep => state' = state /\ yielded' = yielded ]_vars
    /\ [][ IsOriginalStep => derived' = derived ]_vars

---------------------------------------------------------------------------
(* Properties of the rate limiter, checked under SpecLimiter *)

Acquired(c) == Caller(c).acquiredAt >= 0

Invoked(c) == Caller(c).invokedAt >= 0

\* C11: with RateLimit = D > 0, if one request was over before another was
\* called, the transport invocations of the two are at least D apart.
C11_SequentialCallsSpaced ==
    options.RateLimit > 0 =>
       \A c1, c2 \in Callers :
          (c1 \in Caller(c2).after /\ Invoked(c2))
             => Caller(c2).invokedAt - Caller(c1).invokedAt >= options.RateLimit

\* C11 witness: the second of two sequential requests went out exactly D
\* after the first
C11_Witness ==
    /\ options.RateLimit = 2
    /\ 1 \in Caller(2).after /\ Invoked(2)
    /\ Caller(2).invokedAt - Caller(1).invokedAt = 2

\* C12: with RateLimit = D > 0, under every interleaving of the callers any
\* two applyRateLimit calls that return nil return at least D apart, so k
\* requests that all pass take at least (k-1)*D.
C12_ConcurrentAcquiresSpaced ==
    options.RateLimit > 0 =>
       /\ \A c1, c2 \in Callers :
             (c1 # c2 /\ Acquired(c1) /\ Acquired(c2)
                /\ Caller(c1).acquiredAt <= Caller(c2).acquiredAt)
                => Caller(c2).acquiredAt - Caller(c1).acquiredAt >= options.RateLimit
       /\ (\A c \in Callers : Acquired(c)) =>
             \E c1, c2 \in Callers :
                Caller(c2).acquiredAt - Caller(c1).acquiredAt
                   >= (MaxCallers - 1) * options.RateLimit

\* C12 witness: a caller that found the mutex held passed exactly D after
\* the one that held it
C12_Witness ==
    /\ options.RateLimit = 2
    /\ Caller(2).queued /\ Acquired(1) /\ Acquired(2)
    /\ Caller(2).acquiredAt - Caller(1).acquiredAt = 2

\* C13: an applyRateLimit call that is the first on its client, or that
\* finds RateLimit passed since the timestamp of the previous one, returns
\* without entering the timed wait.
C13_NoWaitWhenDue ==
    \A c \in Callers : Caller(c).due => Caller(c).pc # "select"

\* C14: a caller whose context is cancelled while it is in applyRateLimit
\* (blocked on the mutex or in its timed wait) is out of it before any time
\* passes.
C14_CancelObservedPromptly ==
    \A c \in Callers : ~Caller(c).late

---------------------------------------------------------------------------
(* Properties of GetByID, checked under SpecGetByID *)

\* The inputs of the GetByID call that lastOp records
GetByIDInput == lastOp.run[2]

\* The transport answered the first request of the call with a readable page
FirstCallSucceeds(run) ==
    /\ Len(run.trace) >= 1
    /\ run.trace[1].invoked
    /\ run.trace[1].resp = "ok"

\* C21: a GetByID with a non-empty id whose request is answered with a page of
\* zero papers returns the non-retryable not-found error; when it is the first
\* request that is so answered the transport was invoked exactly once; and in
\* every such call the empty page is the last answer the transport gave, so
\* the not-found outcome itself is never retried.
C21_NotFoundAfterOneCall ==
    (lastOp.kind = "getbyid" /\ ~GetByIDInput.empty /\ GetByIDInput.n = 0
       /\ LastRun.got)
    => /\ lastOp.ret = "error"
       /\ lastOp.err = NewAPIError("not_found", "paper not found")
       /\ ~lastOp.err.retry
       /\ lastOp.calls = Invocations(LastRun.trace)
       /\ LastRun.trace[Len(LastRun.trace)].resp = "ok"
       /\ \A i \in 1..(Len(LastRun.trace) - 1) : LastRun.trace[i].resp # "ok"
       /\ FirstCallSucceeds(LastRun) => lastOp.calls = 1

C21_Witness ==
    /\ lastOp.kind = "getbyid"
    /\ ~GetByIDInput.empty
    /\ GetByIDInput.n = 0
    /\ FirstCallSucceeds(LastRun)
    /\ options.RetryAttempts > 1
    /\ lastOp.err.type = "not_found"
    /\ lastOp.calls = 1

---------------------------------------------------------------------------
(* Zero and negative rate limits, checked under SpecLimiter *)

\* c is held up by the rate limiter: behind the mutex another caller holds
\* while it waits, between the two clock readings, or in the timed wait
Throttled(c) ==
    \/ Caller(c).pc \in {"measure", "select"}
    \/ Caller(c).pc = "lock" /\ limiter.mu # 0

\* C22 as stated: on a client constructed with a rate limit of zero no caller
\* is ever held up by the rate limiter.
C22_ZeroIntervalNotThrottled ==
    limiter.given = 0 => \A c \in Callers : ~Throttled(c)

\* C22, amended: a client constructed with a negative rate limit is not
\* throttled: the mutex is never held across a wait and no caller reaches the
\* clock comparison or the timed wait.  A rate limit of zero is replaced by
\* the default interval, which is positive, so that client is throttled.
C22_NegativeIntervalNotThrottled ==
    /\ limiter.given < 0 =>
          /\ limiter.mu = 0
          /\ \A c \in Callers : ~Throttled(c) /\ ~Caller(c).queued
    /\ limiter.given = 0 =>
          /\ options.RateLimit = defaultRateLimit
          /\ options.RateLimit > 0

\* Two requests of an unthrottled client reach the transport at the same time
C22_Witness ==
    /\ limiter.given < 0
    /\ \E c, d \in Callers :
          /\ c # d
          /\ Caller(c).pc = "finished"
          /\ Caller(d).pc = "finished"
          /\ Caller(c).invokedAt = Caller(d).invokedAt

---------------------------------------------------------------------------
(* Pagination, checked under Spec *)

\* The number of items a traversal is to yield from a transport holding
\* total items
Expected(total, limit) == IF limit > 0 THEN Min(total, limit) ELSE total

\* No call since the iterator was made or Reset has returned without an item
NotEnded == polls = Len(yielded)

\* The last call is the first one to return without an item
FirstEnd == lastOp.kind = "poll" /\ lastOp.paper = NoPaper /\ polls = Len(yielded) + 1

\* C23: against a transport that never fails, honours offset and size and
\* reports the true count T, no call fails; as long as every call has yielded
\* an item at most min(T, L) items (T without a limit) have been yielded, so
\* the sequence is finite; and the first call that yields none returns "no
\* more items" after exactly that many items, none at all when T = 0.
C23_FiniteSequence ==
    (lastOp.kind = "poll" /\ lastOp.hist.truthful /\ state.Results.id # 0)
    => LET E == Expected(state.Results.TotalCount, query.Limit)
       IN /\ lastOp.ret \in {"item", "none"}
          /\ NotEnded => Len(yielded) <= E
          /\ FirstEnd => lastOp.ret = "none" /\ Len(yielded) = E

\* Two pages of one item each are traversed to the end
C23_Witness ==
    /\ lastOp.hist.truthful
    /\ FirstEnd
    /\ lastOp.ret = "none"
    /\ state.Results.TotalCount = 2
    /\ query.Limit = 0
    /\ Len(lastOp.hist.pages) = 2
    /\ Len(yielded) = 2

\* C24: with a limit L > 0 the number of items consumed never exceeds L, in
\* every state, after any calls and whatever the transport returned, calls
\* made after "no more items" included; and a call yields an item only while
\* fewer than L have been consumed.
C24_ConsumedWithinLimit ==
    /\ [](query.Limit > 0 => state.TotalFetched <= query.Limit)
    /\ [][ (IsPollStep /\ query.Limit > 0 /\ lastOp'.ret = "item")
              => state.TotalFetched < query.Limit ]_vars

\* The limit is reached, the window still holds an item beyond the cursor,
\* and calls after the first "no more items" have been made
C24_Witness ==
    /\ query.Limit > 0
    /\ state.TotalFetched = query.Limit
    /\ state.Results.id # 0
    /\ state.CurrentIndex < state.Results.n
    /\ polls > Len(yielded) + 1
    /\ lastOp.kind = "poll" /\ lastOp.ret = "none"

\* This step is a nextPaper call that requests a window
IsFetchStep == IsPollStep /\ lastOp'.fetched

\* The last non-empty page fetched before this step
LastPage == lastOp.hist.pages[Len(lastOp.hist.pages)]

\* The offset rule of C25: 0 for the first fetch after creation or Reset,
\* afterwards the start index the last fetched page reports plus the number
\* of its items
OffsetFollowsPriorOutcome ==
    [][ IsFetchStep =>
           lastOp'.req.Start = (IF state.Results.id = 0 THEN 0
                                ELSE state.Results.StartIndex + state.Results.n)
      ]_vars

---------------------------------------------------------------------------
(* Properties of HasMoreData, checked under SpecPaginator *)

LimitReached == query.Limit > 0 /\ state.TotalFetched >= query.Limit

TotalReached ==
    /\ state.Results.TotalCount > 0
    /\ state.Results.StartIndex + state.Results.n >= state.Results.TotalCount

\* C27: HasMoreData is true when no results are held; otherwise it is false
\* exactly when the limit is reached, or the known total count is reached, or
\* the page holds fewer items than were requested for it -- so a page of
\* exactly the size the limit clamped the request to does not by itself end
\* the pagination.
C27_HasMoreData ==
    lastOp.kind = "hasmore"
    => (lastOp.ret = "true"
          <=> \/ state.Results.id = 0
              \/ ~(\/ LimitReached
                   \/ TotalReached
                   \/ state.Results.n < lastOp.req.MaxResults))

\* What holds of HasMoreData: the page is compared with the configured page
\* size, not with the size requested for it
HasMoreDataComparesConfiguredSize ==
    lastOp.kind = "hasmore"
    => (lastOp.ret = "true"
          <=> \/ state.Results.id = 0
              \/ ~(\/ LimitReached
                   \/ TotalReached
                   \/ state.Results.n < query.MaxResults))

---------------------------------------------------------------------------
(* Page index and cursor, checked under Spec *)

\* This step is a nextPaper call that fetches a non-empty page
IsPageStep ==
    IsFetchStep /\ Len(lastOp'.hist.pages) = Len(lastOp.hist.pages) + 1

\* C28: CurrentPage is the number of fetches since creation or the last Reset
\* that delivered a non-empty page: a call adds 1 to it exactly when it
\* fetches such a page, and consumption, failed or empty fetches and calls
\* that return "no more items" leave it unchanged.
C28_PageIndexCountsFetches ==
    /\ [](state.CurrentPage = Len(lastOp.hist.pages))
    /\ [][ IsPollStep =>
             state'.CurrentPage = state.CurrentPage
                                  + (IF IsPageStep THEN 1 ELSE 0) ]_vars

\* What holds of CurrentPage: it counts the non-empty pages as long as no
\* call has returned without an item
PageIndexCountsFetchesUntilEnd ==
    NotEnded => state.CurrentPage = Len(lastOp.hist.pages)

\* In phase Ready the cursor lies within the window, its end included
CursorWithinWindow ==
    state.Current = StateReady
    => /\ state.Results.id # 0
       /\ 0 <= state.CurrentIndex
       /\ state.CurrentIndex <= state.Results.n

\* ConsumeAction is applied only with the cursor on an item of the window,
\* and the item returned is that one
ConsumedUnderCursor ==
    [][ (IsPollStep /\ lastOp'.ret = "item")
           => /\ state'.CurrentIndex >= 1
              /\ state'.CurrentIndex <= state'.Results.n
              /\ lastOp'.paper = [res |-> state'.Results.id,
                                  idx |-> state'.CurrentIndex - 1] ]_vars

\* C29: in phase Ready 0 <= cursor <= len(items); the cursor goes back to 0
\* only by a fetch that delivered a new window (or by Reset); and an item is
\* consumed only with the cursor below len(items).
C29_CursorDiscipline ==
    /\ []CursorWithinWindow
    /\ [][ (state.CurrentIndex > 0 /\ state'.CurrentIndex = 0)
              => (IsPageStep \/ lastOp'.kind = "reset") ]_vars
    /\ ConsumedUnderCursor

\* The items of the pages, page after page, each page in its own order
RECURSIVE Concatenation(_)
Concatenation(pages) ==
    IF pages = << >> THEN << >>
    ELSE [i \in 1..pages[1].n |-> [res |-> pages[1].id, idx |-> i - 1]]
         \o Concatenation(Tail(pages))

IsPrefix(s, t) ==
    /\ Len(s) <= Len(t)
    /\ \A i \in 1..Len(s) : s[i] = t[i]

\* C30: from Initial up to and including the first call that returns "no more
\* items" or a failure, the items yielded are a prefix of the concatenation
\* of the pages fetched, in fetch order: page order is kept, no item is
\* yielded twice and none is skipped; and each item returned is the one the
\* cursor stood on before it advanced.
C30_YieldedIsPrefixOfPages ==
    /\ []((NotEnded \/ FirstEnd)
             => IsPrefix(yielded, Concatenation(lastOp.hist.pages)))
    /\ [][ (IsPollStep /\ lastOp'.ret = "item")
              => lastOp'.paper = [res |-> state'.Results.id,
                                  idx |-> state'.CurrentIndex - 1] ]_vars

\* Two pages, the first of two items, have been yielded completely
C30_Witness ==
    /\ NotEnded
    /\ Len(lastOp.hist.pages) = 2
    /\ lastOp.hist.pages[1].n = 2
    /\ Len(yielded) = 3
    /\ yielded = Concatenation(lastOp.hist.pages)

---------------------------------------------------------------------------
(* The attempts of one operation and the rate limiter, under SpecClient *)

\* The acquire of attempt t failed: applyRateLimit returned ctx.Err()
AcquireFailed(t) == t.resp = "-"

\* C31: every attempt of a Search, the first and the retries alike, goes
\* through applyRateLimit before it calls the transport: the transport is
\* invoked in an attempt exactly when that attempt's acquire succeeded; with
\* RateLimit = D > 0 the acquire of every invoking attempt takes at least D,
\* so the invocations of consecutive attempts are at least D apart; and an
\* attempt whose acquire fails does not invoke the transport.
C31_EveryAttemptAcquires ==
    lastOp.kind = "search" =>
       /\ \A k \in DOMAIN LastRun.trace :
             LET t == LastRun.trace[k]
             IN /\ t.invoked <=> ~AcquireFailed(t)
                /\ AcquireFailed(t) => options.RateLimit > 0 /\ LastRun.err = CtxErr
                /\ (t.invoked /\ options.RateLimit > 0)
                      => /\ t.took >= options.RateLimit
                         /\ t.delay + t.took >= options.RateLimit
       /\ lastOp.calls = Invocations(LastRun.trace)

\* A retried attempt waited the rate limit before it called the transport
C31_Witness ==
    /\ lastOp.kind = "search" /\ NoCtx(LastRun)
    /\ options.RateLimit = 2
    /\ LastRun.script = <<"throttle", "ok">>
    /\ LastRun.trace[2].invoked
    /\ LastRun.trace[2].took = 2
    /\ LastRun.calls = 2

---------------------------------------------------------------------------
(* Cancellation during the retry delay, under SpecClient *)

\* The context fired while the run was in the select that follows the
\* failure of some attempt (counted from 1)
FiredInRetryWait(run) == run.firedAt # NoCancel /\ run.firedAt % 3 = 0

\* The attempt whose failure that select follows
WaitingAfter(run) == run.firedAt \div 3

\* C32: if the context fires while retryWithBackoff waits between two
\* attempts, the wait is abandoned: the Search returns the context's error,
\* not the failure of the last attempt, and no attempt follows, so the
\* transport is not invoked again.
C32_RetryWaitIsInterruptible ==
    (lastOp.kind = "search" /\ FiredInRetryWait(LastRun))
    => /\ LastRun.err = CtxErr
       /\ Len(LastRun.trace) = WaitingAfter(LastRun)

\* What holds: a wait of the configured retry delay, which follows the
\* second and later failures, is abandoned when the context fires
PositiveRetryWaitIsInterruptible ==
    (lastOp.kind = "search" /\ FiredInRetryWait(LastRun)
       /\ WaitingAfter(LastRun) >= 2)
    => /\ LastRun.err = CtxErr
       /\ Len(LastRun.trace) = WaitingAfter(LastRun)

\* A wait of the retry delay was abandoned
PositiveRetryWaitReached ==
    /\ lastOp.kind = "search" /\ FiredInRetryWait(LastRun)
    /\ WaitingAfter(LastRun) = 2
    /\ options.RetryDelay = 2
    /\ LastRun.calls = 2

---------------------------------------------------------------------------
(* Progress of the rate limiter, checked under SpecLimiterFair *)

\* applyRateLimit has returned nil to c
AcquireReturned(c) == Caller(c).pc \in {"do", "finished"}

\* C33: under fair scheduling every caller that has called applyRateLimit
\* eventually returns from it, with nil unless its context was cancelled;
\* and rlMu, once held, is eventually released, also when its holder is
\* cancelled.
C33_NoStarvation ==
    /\ \A c \in Callers : InAcquire(c) ~> ~InAcquire(c)
    /\ \A c \in Callers : InAcquire(c) ~> (AcquireReturned(c) \/ Caller(c).fired)
    /\ \A c \in Callers : (limiter.mu = c) ~> (limiter.mu # c)
    /\ (limiter.mu # 0) ~> (limiter.mu = 0)

\* A caller that found rlMu held, behind a holder that was then cancelled,
\* has returned from applyRateLimit with nil
C33_Witness ==
    \E c, d \in Callers :
       /\ c # d
       /\ Caller(c).pc = "cancelled"
       /\ Caller(d).queued
       /\ ~Caller(d).fired
       /\ AcquireReturned(d)
       /\ limiter.mu = 0

---------------------------------------------------------------------------
(* The query's start index, checked under Spec *)

\* This step requests the first window since the iterator was made or Reset
IsFirstFetchStep == IsFetchStep /\ state.Results.id = 0

\* C34: the first window an iterator requests has the offset Query.Start of
\* the query it was created from.
C34_FirstWindowAtStart ==
    [][ IsFirstFetchStep => lastOp'.req.Start = query.Start ]_vars

\* What holds: the first window is requested at offset 0, whatever Query.Start
FirstWindowAtZero ==
    [][ IsFirstFetchStep => lastOp'.req.Start = 0 ]_vars

---------------------------------------------------------------------------
(* Reset and a new iterator, checked under Spec *)

\* A fetch that succeeds, as far as the iterator sees it
SuccessOutcome == [err |-> NilErr, got |-> TRUE, calls |-> 1, cancelled |-> FALSE]

\* nextPaper does the same on q and on q with another Start, whatever a
\* successful fetch delivers: Start is the one field Reset changes in a Query
StartIsIgnored(q, st) ==
    \A s \in {0, 1} \ {q.Start} :
       \A pay \in IF nextPaper(q, st, ProbeOutcome, NoPayload, 1).fetched
                  THEN Payloads ELSE {NoPayload} :
          nextPaper([q EXCEPT !.Start = s], st, SuccessOutcome, pay, 1)
             = nextPaper(q, st, SuccessOutcome, pay, 1)

SearchReturned == lastOp.kind = "search"

\* The number of times retryWithBackoff ran the function it was given
Attempts(run) == Len(run.trace)

\* C36: under every configuration NewClientWithOptions returns, negative
\* RetryAttempts included, a Search of a non-nil query runs its attempt at
\* least once and returns a result or an error, never neither.
C36_SearchAttemptsAndReturns ==
    SearchReturned => /\ Attempts(lastOp.run[1]) >= 1
                      /\ lastOp.ret \in {"result", "error"}

\* What holds: with RetryAttempts of one or more Search attempts and returns
\* one of the two; with negative RetryAttempts it returns (nil, nil) without
\* an attempt.
SearchReturnsUnlessNegativeAttempts ==
    SearchReturned =>
       IF options.RetryAttempts >= 1
       THEN /\ Attempts(lastOp.run[1]) >= 1
            /\ lastOp.ret \in {"result", "error"}
       ELSE /\ options.RetryAttempts < 0
            /\ Attempts(lastOp.run[1]) = 0
            /\ lastOp.ret = "nothing"

\* GetByID of a non-empty id never dereferences a missing result
GetByIDNeverPanics == lastOp.kind = "getbyid" => lastOp.ret # "panic"

\* ------------------------------------------------------------------------
\* Reset of an iterator that has no query

\* The iterator made from an invalid builder has been Reset: it is in
\* StateInitial and holds no query
ResetWithoutQuery == query = NilQuery /\ state.Current = StateInitial

\* C37: a nextPaper call on an iterator that was made from an invalid
\* builder and then Reset returns an error or "no more items", makes no
\* transport invocation and does not panic.
C37_ResetWithoutQueryIsSafe ==
    [][ (ResetWithoutQuery /\ IsPollStep)
          => /\ lastOp'.ret \in {"error", "done"}
             /\ lastOp'.calls = 0 ]_vars

\* What holds: that call dereferences the nil query before it fetches, so it
\* panics without a transport invocation and leaves the state as it was.
ResetWithoutQueryPanics ==
    [][ (ResetWithoutQuery /\ IsPollStep)
          => /\ lastOp'.ret = "panic"
             /\ lastOp'.calls = 0
             /\ state' = state ]_vars

\* Unless it is Reset, the iterator without a query never panics
NoPanicBeforeReset ==
    [][ (query = NilQuery /\ state.Current = StateError /\ IsPollStep)
          => lastOp'.ret = "error" ]_vars

\* ------------------------------------------------------------------------
\* CollectN, CollectNSeq and TakeSeq over Iterator.All()

\* The response of a transport that holds held items and answers the window
\* it is asked for
TruthfulPayload(req, held) ==
    [n |-> IF req.Start >= held THEN 0 ELSE Min(req.MaxResults, held - req.Start),
     honour |-> TRUE, TotalCount |-> held]

\* One nextPaper call against that transport through a client that does not
\* fail
TruthfulPoll(q, st, held, id) ==
    LET probe == nextPaper(q, st, ProbeOutcome, NoPayload, id)
    IN IF probe.fetched
       THEN nextPaper(q, st, SuccessOutcome, TruthfulPayload(probe.req, held), id)
       ELSE probe

\* The start of a range over it.All(): nothing delivered, nothing pulled
RangeStart(st, id) ==
    [state |-> st, id |-> id, papers |-> << >>, pulled |-> << >>, fetches |-> 0]

\* The loop shared by CollectN, CollectNSeq and TakeSeq,
\*     for item := range seq { if count >= n { break }; deliver(item); count++ }
\* over seq = it.All(): All() calls nextPaper and returns on a failure or on
\* "no more items"; the body sees the item only after nextPaper has consumed
\* it.  brkAt > 0 is the number of items after which TakeSeq's consumer
\* breaks (its yield returns false); 0 is a consumer that never does.
RECURSIVE RangeUpTo(_, _, _, _, _)
RangeUpTo(q, held, n, brkAt, acc) ==
    LET r == TruthfulPoll(q, acc.state, held, acc.id)
        next == [state |-> r.state, id |-> acc.id + 1, papers |-> acc.papers,
                 pulled |-> IF r.paper # NoPaper THEN Append(acc.pulled, r.paper)
                            ELSE acc.pulled,
                 fetches |-> acc.fetches + (IF r.fetched THEN 1 ELSE 0)]
    IN IF r.err # NilErr \/ r.paper = NoPaper
       THEN next
       ELSE IF Len(acc.papers) >= n
       THEN next
       ELSE LET delivered == [next EXCEPT !.papers = Append(acc.papers, r.paper)]
            IN IF Len(delivered.papers) = brkAt
               THEN delivered
               ELSE RangeUpTo(q, held, n, brkAt, delivered)

\* Iterator.CollectN(n): the papers and it.Error()
CollectN(q, st, id, held, n) ==
    LET l == RangeUpTo(q, held, n, 0, RangeStart(st, id))
    IN [loop |-> l, err |-> l.state.Error]

\* CollectNSeq(it.All(), n)
CollectNSeq(q, st, id, held, n) ==
    [loop |-> RangeUpTo(q, held, n, 0, RangeStart(st, id)), err |-> NilErr]

\* A range over TakeSeq(it.All(), n) whose body breaks after brkAt items
TakeSeq(q, st, id, held, n, brkAt) ==
    [loop |-> RangeUpTo(q, held, n, brkAt, RangeStart(st, id)), err |-> NilErr]

\* More items than one range over All() hands out
Unbounded == MaxHeld + MaxPageSize + 2

\* What a complete range over it.All() from this state delivers
Drain(q, st, id, held) == RangeUpTo(q, held, Unbounded, 0, RangeStart(st, id)).papers

\* The fetches a range makes that stops as soon as it has n items
FetchesFor(q, st, id, held, n) ==
    IF n = 0 THEN 0
    ELSE RangeUpTo(q, held, n, n, RangeStart(st, id)).fetches

\* A new iterator of a valid query; lastOp.held is the number of items the
\* transport holds
InitCollect ==
    /\ options = NewClientWithOptions([RetryAttempts |-> 0, RetryDelay |-> 0,
                                       RateLimit |-> -1])
    /\ query \in Queries
    /\ state = QueryBuilderIterator(query, NilErr)
    /\ ctxDone = FALSE
    /\ polls = 0
    /\ yielded = << >>
    /\ ample = TRUE
    /\ brokeOn = NoPaper
    /\ \E held \in 0..MaxHeld :
          lastOp = [kind |-> "new", n |-> 0, brkAt |-> 0, held |-> held,
                    papers |-> << >>, pulled |-> << >>, fetches |-> 0,
                    err |-> NilErr]
    /\ derived = NoDerived
    /\ limiter = NewLimiter

\* The iterator and the record after a call c that was given n and brkAt
Collected(kind, c, n, brkAt) ==
    /\ state' = c.loop.state
    /\ polls' = c.loop.id - 1
    /\ yielded' = yielded \o c.loop.pulled
    /\ lastOp' = [kind |-> kind, n |-> n, brkAt |-> brkAt, held |-> lastOp.held,
                  papers |-> c.loop.papers, pulled |-> c.loop.pulled,
                  fetches |-> c.loop.fetches, err |-> c.err]
    /\ UNCHANGED <<options, query, ctxDone, ample, brokeOn, derived, limiter>>

\* it.CollectN(n)
CallCollectN ==
    /\ polls < MaxPolls
    /\ \E n \in 0..MaxCollect :
          Collected("CollectN",
                    CollectN(query, state, polls + 1, lastOp.held, n), n, 0)

\* CollectNSeq(it.All(), n)
CallCollectNSeq ==
    /\ polls < MaxPolls
    /\ \E n \in 0..MaxCollect :
          Collected("CollectNSeq",
                    CollectNSeq(query, state, polls + 1, lastOp.held, n), n, 0)

\* for p := range TakeSeq(it.All(), n) { ... }, left after brkAt items if
\* brkAt > 0
RangeTakeSeq ==
    /\ polls < MaxPolls
    /\ \E n \in 0..MaxCollect : \E brkAt \in 0..n :
          Collected("TakeSeq",
                    TakeSeq(query, state, polls + 1, lastOp.held, n, brkAt),
                    n, brkAt)

NextCollect == CallCollectN \/ CallCollectNSeq \/ RangeTakeSeq

SpecCollect == InitCollect /\ [][NextCollect]_vars

\* The number of items the call's consumer asked for
Wanted(op) == IF op.brkAt > 0 THEN op.brkAt ELSE op.n

\* The first n elements of s, or all of s if it has fewer
Take(s, n) == SubSeq(s, 1, Min(n, Len(s)))

\* C38: CollectN(n), CollectNSeq(seq, n) and a range over TakeSeq(seq, n)
\* deliver the first min(n, available) items of the traversal in order and
\* consume exactly those: TotalFetched grows by the number delivered, no
\* further item is taken from the iterator and dropped, and no fetch is made
\* beyond those that the delivered items need.
C38_ConsumesWhatItDelivers ==
    [][ LET avail == Drain(query, state, polls + 1, lastOp.held)
            op == lastOp'
        IN /\ op.papers = Take(avail, Wanted(op))
           /\ state'.TotalFetched - state.TotalFetched = Len(op.papers)
           /\ op.pulled = op.papers
           /\ op.fetches <= FetchesFor(query, state, polls + 1, lastOp.held,
                                       Len(op.papers)) ]_vars

\* What holds: the items delivered are as said; a call that is not ended by
\* its consumer takes one item more from the iterator than it delivers, if
\* there is one, and counts it in TotalFetched.
DeliversPrefixConsumesOneMore ==
    [][ LET avail == Drain(query, state, polls + 1, lastOp.held)
            op == lastOp'
            taken == IF op.brkAt > 0 /\ Len(avail) >= op.brkAt THEN op.brkAt
                     ELSE Min(op.n + 1, Len(avail))
        IN /\ op.papers = Take(avail, Wanted(op))
           /\ op.pulled = Take(avail, taken)
           /\ state'.TotalFetched - state.TotalFetched = taken ]_vars

\* A call took an item from the iterator, and fetched a page for it, that it
\* did not deliver
DroppedAfterFetch ==
    /\ lastOp.kind = "CollectN"
    /\ lastOp.n = 1 /\ Len(lastOp.papers) = 1 /\ Len(lastOp.pulled) = 2
    /\ lastOp.fetches = 2

\* ------------------------------------------------------------------------
\* A poll under a context that is already cancelled

\* The next nextPaper call has to fetch, on a client that rate-limits, and
\* the iterator's context is done
FetchUnderDoneContext == ctxDone /\ options.RateLimit > 0 /\ WouldFetch

\* The next nextPaper call finds an item in the window the iterator holds
ServedFromWindow ==
    /\ state.Current = StateReady
    /\ state.CurrentIndex < state.Results.n
    /\ ~(query.Limit > 0 /\ state.TotalFetched >= query.Limit)

\* C39: on a client with a positive RateLimit, a nextPaper call that has to
\* fetch while the iterator's context is already done makes no transport
\* invocation, leaves the iterator in StateError with the context's error
\* and leaves TotalFetched as it was; a call that is served from the window
\* the iterator holds returns its item all the same.
C39_DoneContextStopsFetch ==
    /\ [][ (FetchUnderDoneContext /\ IsPollStep)
              => /\ lastOp'.calls = 0
                 /\ state'.Current = StateError
                 /\ state'.Error = CtxErr
                 /\ lastOp'.err = CtxErr
                 /\ state'.TotalFetched = state.TotalFetched ]_vars
    /\ [][ (ctxDone /\ ServedFromWindow /\ IsPollStep)
              => /\ lastOp'.ret = "item"
                 /\ lastOp'.calls = 0
                 /\ state'.TotalFetched = state.TotalFetched + 1 ]_vars

\* What holds: such a fetch consumes nothing.  With RetryAttempts of one or
\* more it fails: it ends in applyRateLimit's wait or in a retry wait with the
\* context's error, or it passes applyRateLimit without a wait, invokes the
\* transport on the done context and ends with the network failure of that
\* call.  With negative RetryAttempts nothing is attempted and the iterator
\* is exhausted.
DoneContextFailsFetch ==
    /\ [][ (FetchUnderDoneContext /\ IsPollStep)
              => /\ state'.TotalFetched = state.TotalFetched
                 /\ IF options.RetryAttempts >= 1
                    THEN /\ state'.Current = StateError
                         /\ \/ lastOp'.err = CtxErr
                            \/ /\ lastOp'.err = NewAPIError("network",
                                                            "failed to make request")
                               /\ lastOp'.calls >= 1
                    ELSE /\ state'.Current = StateExhausted
                         /\ lastOp'.ret = "none"
                         /\ lastOp'.calls = 0 ]_vars
    /\ [][ (ctxDone /\ ServedFromWindow /\ IsPollStep)
              => /\ lastOp'.ret = "item"
                 /\ lastOp'.calls = 0
                 /\ state'.TotalFetched = state.TotalFetched + 1 ]_vars

\* A fetch under a done context ended in applyRateLimit's wait
StoppedInRateLimitWait ==
    /\ ctxDone /\ options.RateLimit > 0
    /\ lastOp.kind = "poll" /\ lastOp.fetched
    /\ lastOp.err = CtxErr /\ lastOp.calls = 0
    /\ state.TotalFetched > 0

\* A fetch under a done context invoked the transport
InvokedUnderDoneContext ==
    /\ ctxDone /\ options.RateLimit > 0
    /\ lastOp.kind = "poll" /\ lastOp.fetched
    /\ lastOp.err = NewAPIError("network", "failed to make request")
    /\ lastOp.calls >= 1

\* ------------------------------------------------------------------------
\* The caller's Query

\* This step is a Reset of the iterator or of the one WithContext made
IsResetStep ==
    \/ lastOp'.kind = "reset" /\ polls' = 0 /\ derived' = derived
    \/ derived'.ret = "reset" /\ state' = state /\ lastOp' = lastOp

\* C40: no operation of an iterator (nextPaper, Reset, WithContext, a range
\* over All()) changes the Query the caller gave: its Start, MaxResults and
\* Limit stay what they were.
C40_QueryIsNeverWritten ==
    [][ /\ query'.Start = query.Start
        /\ query'.MaxResults = query.MaxResults
        /\ query'.Limit = query.Limit ]_vars

\* What holds: nextPaper and WithContext leave the Query alone, and
\* MaxResults and Limit are never written; Reset, of either iterator, sets
\* Start to 0.
OnlyResetWritesStart ==
    [][ /\ query'.MaxResults = query.MaxResults
        /\ query'.Limit = query.Limit
        /\ IF IsResetStep THEN query'.Start = 0
           ELSE query'.Start = query.Start ]_vars

\* A Reset has changed the caller's Query
ResetWroteStart ==
    /\ lastOp.kind = "reset" /\ query.Start = 0 /\ query.MaxResults = MaxPageSize
=============================================================================
